---- MODULE Spec2Model ----
(***************************************************************************)
(* Model of archiver.py: the per-unit archiving step                       *)
(* (Archiver.archive_service), the date filter (filter_by_age) and the     *)
(* orchestrating loop of the script.                                       *)
(*                                                                         *)
(* A file name is a sequence of tokens.  A token is either a piece of      *)
(* text, T("access-"), or a date-shaped piece "YYYY-MM-DD", D(y, m, d),    *)
(* holding the numbers its three digit groups spell.                       *)
(***************************************************************************)
EXTENDS Integers, Sequences, FiniteSets, TLC

(***************************************************************************)
(* Bounds of the model.                                                    *)
(***************************************************************************)
MaxFiles == 2      \* remote files that exist when the first run starts
MaxRuns == 2       \* runs of the script
MaxFaults == 1     \* I/O errors and abrupt terminations over all runs

(***************************************************************************)
(* Calendar arithmetic of datetime.date.                                   *)
(***************************************************************************)
T(s) == [k |-> "t", s |-> s, y |-> 0, m |-> 0, d |-> 0]

\* a directory component, "name/"
Dir(s) == [k |-> "dir", s |-> s, y |-> 0, m |-> 0, d |-> 0]

D(y, m, d) == [k |-> "d", s |-> "", y |-> y, m |-> m, d |-> d]

IsDateTok(t) == t.k = "d"

IsLeap(y) == (y % 4 = 0) /\ ((y % 100 # 0) \/ (y % 400 = 0))

DaysInMonth(y, m) ==
    IF m = 2 THEN (IF IsLeap(y) THEN 29 ELSE 28)
    ELSE IF m \in {4, 6, 9, 11} THEN 30 ELSE 31

RECURSIVE DaysBeforeMonth(_, _)
DaysBeforeMonth(y, m) ==
    IF m <= 1 THEN 0 ELSE DaysBeforeMonth(y, m - 1) + DaysInMonth(y, m - 1)

DaysBeforeYear(y) ==
    (y - 1) * 365 + ((y - 1) \div 4) - ((y - 1) \div 100) + ((y - 1) \div 400)

\* date(y, m, d) raises ValueError unless this holds
ValidDate(t) ==
    /\ t.y \in 1..9999
    /\ t.m \in 1..12
    /\ t.d \in 1..DaysInMonth(t.y, t.m)

\* date.toordinal()
Ordinal(t) == DaysBeforeYear(t.y) + DaysBeforeMonth(t.y, t.m) + t.d

\* (today - f_date).days
AgeDays(today, t) == Ordinal(today) - Ordinal(t)

(***************************************************************************)
(* DATE_REGEX = (20[0-9][0-9])-([0-9][0-9])-([0-9][0-9])                   *)
(***************************************************************************)
DATE_REGEX(t) ==
    IsDateTok(t) /\ t.y \in 2000..2099 /\ t.m \in 0..99 /\ t.d \in 0..99

\* DATE_REGEX.search(f): index of the first matching token, 0 when none
RECURSIVE SearchFrom(_, _)
SearchFrom(f, i) ==
    IF i > Len(f) THEN 0
    ELSE IF DATE_REGEX(f[i]) THEN i ELSE SearchFrom(f, i + 1)

RegexSearch(f) == SearchFrom(f, 1)

(***************************************************************************)
(* String order, as list.sort() compares str and (date, str) values.       *)
(* Text tokens are ranked in the order of their strings; a date token is   *)
(* digits, which sort after '.' and before letters.                        *)
(***************************************************************************)
TextRank(t) ==
    CASE t.s = ".download" -> 1
      [] t.s = ".gz" -> 2
      [] t.s = ".log" -> 3
      [] t.s = "access-" -> 5
      [] t.s = "d" -> 6
      [] t.s = "h1" -> 7
      [] t.s = "h2" -> 8
      [] t.s = "h3" -> 9
      [] t.s = "root" -> 10
      [] t.s = "sub" -> 11
      [] OTHER -> 12

TokLess(a, b) ==
    IF IsDateTok(a) /\ IsDateTok(b)
    THEN \/ a.y < b.y
         \/ a.y = b.y /\ a.m < b.m
         \/ a.y = b.y /\ a.m = b.m /\ a.d < b.d
    ELSE IF IsDateTok(a) THEN TextRank(b) > 4
    ELSE IF IsDateTok(b) THEN TextRank(a) < 4
    ELSE TextRank(a) < TextRank(b)

RECURSIVE StrLessFrom(_, _, _)
StrLessFrom(a, b, i) ==
    IF i > Len(a) THEN i <= Len(b)
    ELSE IF i > Len(b) THEN FALSE
    ELSE IF a[i] = b[i] THEN StrLessFrom(a, b, i + 1)
    ELSE TokLess(a[i], b[i])

StrLess(a, b) == StrLessFrom(a, b, 1)

RECURSIVE SetToSeq(_)
SetToSeq(S) ==
    IF S = {} THEN <<>>
    ELSE LET x == CHOOSE y \in S : TRUE IN <<x>> \o SetToSeq(S \ {x})

\* files.sort() on a list of str
SortedFiles(S) == SortSeq(SetToSeq(S), StrLess)

(***************************************************************************)
(* filter_by_age(files, comparator).  The result is the sorted list, or    *)
(* the ValueError that date() raises for a matched text that is not a      *)
(* calendar date.                                                          *)
(***************************************************************************)
FileDate(f) == f[RegexSearch(f)]

\* variant: the pairs sorted newest first
PairGreater(a, b) ==
    LET da == Ordinal(FileDate(a))
        db == Ordinal(FileDate(b))
    IN  da > db \/ (da = db /\ StrLess(b, a))

\* results.sort() on (f_date, f) pairs
PairLess(a, b) ==
    LET da == Ordinal(FileDate(a))
        db == Ordinal(FileDate(b))
    IN  da < db \/ (da = db /\ StrLess(a, b))

\* variant: the age is not looked at
AnyAge(age, days) == TRUE

\* variant: a comparator that also takes the files exactly `days` days old
AtLeast(age, days) == age >= days

\* lambda d: d.days > days, the comparator both callers pass
OlderThan(age, days) == age > days

filter_by_age(files, today, days) ==
    LET idx == 1..Len(files)
        matched == {i \in idx : RegexSearch(files[i]) # 0}
        kept == {i \in matched : ValidDate(FileDate(files[i]))
                                  /\ OlderThan(AgeDays(today, FileDate(files[i])), days)}
    IN  IF \E i \in matched : ~ValidDate(FileDate(files[i]))
        THEN [err |-> "ValueError", out |-> <<>>]
        ELSE [err |-> "", out |-> SortSeq(SetToSeq({files[i] : i \in kept}), PairLess)]

(***************************************************************************)
(* Paths: os.path.basename, str.endswith(".gz"), the names of a transfer.  *)
(***************************************************************************)
RECURSIVE LastDir(_, _)
LastDir(f, i) == IF i = 0 THEN 0 ELSE IF f[i].k = "dir" THEN i ELSE LastDir(f, i - 1)

basename(f) == SubSeq(f, LastDir(f, Len(f)) + 1, Len(f))

EndsWithGz(f) == Len(f) > 0 /\ f[Len(f)] = T(".gz")

\* os.path.join(self.base_dir, service.name, service.host)
BaseDirOf(service) == <<Dir("root"), Dir(service.name), Dir(service.host)>>

LocalName(base_dir, file_name) ==
    LET joined == base_dir \o basename(file_name)
    IN  IF ~EndsWithGz(file_name) THEN joined \o <<T(".gz")>> ELSE joined

\* variant: the download is written under the final name itself
PendingNameInPlace(local_name) == local_name

PendingName(local_name) == local_name \o <<T(".download")>>

(***************************************************************************)
(* The remote listing: find <dir> -name "<glob>".                          *)
(***************************************************************************)
DatePlaceholder == T("<DATE->")

DateGlob == T("????-??-??")

\* "<DATE->" in service.pattern
HasPlaceholder(pattern) == \E n \in 1..Len(pattern) : pattern[n] = DatePlaceholder

\* variant: the pattern is handed to find as it is
GlobAsWritten(pattern) == pattern

\* service.pattern.replace("<DATE->", "????-??-??")
GlobOf(pattern) ==
    [i \in 1..Len(pattern) |-> IF pattern[i] = DatePlaceholder THEN DateGlob ELSE pattern[i]]

\* fnmatch of a glob against a base name; "?" matches any one character,
\* "*" any run of characters
RECURSIVE GlobMatch(_, _)
GlobMatch(g, b) ==
    IF g = <<>> THEN b = <<>>
    ELSE IF Head(g) = T("*")
         THEN GlobMatch(Tail(g), b) \/ (b # <<>> /\ GlobMatch(g, Tail(b)))
    ELSE IF b = <<>> THEN FALSE
    ELSE IF Head(g) = DateGlob
         THEN IsDateTok(Head(b)) /\ GlobMatch(Tail(g), Tail(b))
    ELSE Head(g) = Head(b) /\ GlobMatch(Tail(g), Tail(b))

IsUnder(directory, f) ==
    Len(f) > Len(directory) /\ SubSeq(f, 1, Len(directory)) = directory

\* the lines find prints, stripped and sorted
ListRemote(files, directory, pattern) ==
    SortedFiles({f \in files : IsUnder(directory, f)
                                /\ GlobMatch(GlobOf(pattern), basename(f))})

(***************************************************************************)
(* The configuration and the environment of the bounded model.             *)
(***************************************************************************)
\* date.today()
Today == D(2024, 1, 21)

\* Service(name, host, account, directory, pattern, days_to_keep_on_remote):
\* the tuple type as declared has these six fields and no other.
\* archive_service reads one more attribute, retention_period_days, after the
\* fetch loop, so it is modelled on descriptors of both shapes: the declared
\* tuple, for which that read raises AttributeError, and a descriptor that
\* carries the attribute with the value the script passes for it.
Service(name, host, account, directory, pattern, days) ==
    [name |-> name, host |-> host, account |-> account, directory |-> directory,
     pattern |-> pattern, days_to_keep_on_remote |-> days]

\* a descriptor that also carries the attribute archive_service reads last
WithRetention(service, value) == service @@ ("retention_period_days" :> value)

HasAttr(service, attr) == attr \in DOMAIN service

\* None is <<>>, the integer n is <<n>>
None == <<>>

Truthy(value) == value # None /\ value[1] # 0

Hosts == {"h1", "h2"}

RemoteDir == <<Dir("d")>>

Pattern == <<T("access-"), DatePlaceholder, T(".log"), T("*")>>

Log(date) == RemoteDir \o <<T("access-"), date, T(".log")>>

\* the remote files the first host may hold when the first run starts
Paths ==
    { Log(D(2024, 1, 1)),                                               \* 20 days old
      Log(D(2024, 1, 10)),                                              \* 11 days old
      Log(D(2024, 1, 14)),                                              \* 7 days old
      \* in a subdirectory and compressed: the local name of the first one
      RemoteDir \o <<Dir("sub"), T("access-"), D(2024, 1, 1), T(".log"), T(".gz")>>,
      Log(D(2024, 13, 1)),                                              \* no such month
      Log(D(1999, 1, 1)) }                                              \* not a 20xx year

\* the remote files a host may hold when the first run starts
PathsOf(h) == IF h = "h1" THEN Paths ELSE {Log(D(2024, 1, 1))}

InitialFiles == {hf \in Hosts \X Paths : hf[2] \in PathsOf(hf[1])}

DaysToKeep == 7

\* <<shape of the descriptor, retention_period_days of the configuration>>.
\* The declared tuple behaves the same whatever the configuration asks for,
\* so it is paired with one configured value only.
RetentionChoices == {<<"declared", <<15>>>>, <<"attribute", None>>, <<"attribute", <<15>>>>}

MakeServices(hostList, pattern, ret) ==
    [n \in 1..Len(hostList) |->
        LET base == Service("webapp", hostList[n], "logs", RemoteDir, pattern, DaysToKeep)
        IN  IF ret[1] = "declared" THEN base ELSE WithRetention(base, ret[2])]

\* the service entry of the configuration file, as yaml.load returns it
ServConfig(hostList, pattern, retention) ==
    [hosts |-> hostList, pattern |-> pattern, retention_period_days |-> retention]

\* the field names of the tuple type
ServiceFields ==
    {"name", "host", "account", "directory", "pattern", "days_to_keep_on_remote"}

\* Service(**kwargs): the constructor of a namedtuple accepts its own field
\* names as keywords and raises TypeError for any other
ServiceNew(kwargs) ==
    IF DOMAIN kwargs \subseteq ServiceFields
    THEN [err |-> "", val |-> kwargs]
    ELSE [err |-> "TypeError", val |-> <<>>]

\* the keyword arguments the script passes for one host of a service entry
ServiceKwargs(serv_config, host) ==
    WithRetention(Service("webapp", host, "logs", RemoteDir, serv_config.pattern, DaysToKeep),
                  serv_config.retention_period_days)

HostList == <<"h1", "h2">>

(***************************************************************************)
(* State.                                                                  *)
(***************************************************************************)
VARIABLES
    config,      \* the service entry of the configuration file
    services,    \* the list of (service, host) units of the configuration
    remote,      \* host -> the files on that host
    dirs,        \* the local directories that exist
    local,       \* local path -> [src, complete], the local files
    dry_run,     \* Archiver.dry_run of the current run
    remove,      \* Archiver.remove of the current run
    pc,          \* position of the run
    i,           \* index in services of the current unit
    files,       \* archive_service: the filtered remote list
    k,           \* archive_service: index in files of file_name
    to_delete,   \* archive_service: files_to_delete
    j,           \* archive_service: index in files_to_delete
    run,         \* number of the current run
    faults,      \* I/O errors and terminations so far
    log,         \* what the current run did, in order
    pulls,       \* <<host, remote path>> promoted so far, over all runs
    pruned,      \* local paths the retention pass deleted and no transfer wrote since
    snap         \* the local and remote files when the current run started

vars == <<config, services, remote, dirs, local, dry_run, remove, pc, i, files, k,
          to_delete, j, run, faults, log, pulls, pruned, snap>>

Ev(op, f, at) == [u |-> i, op |-> op, f |-> f, at |-> at]

Snapshot(d, l, r) == [dirs |-> d, local |-> l, remote |-> r]

\* variant: a removal that removes nothing
KeepKey(fn, key) == fn

\* os.remove(key), and the source side of os.rename
RemoveKey(fn, key) == [x \in DOMAIN fn \ {key} |-> fn[x]]

Put(fn, key, val) == (key :> val) @@ fn

Exists(path) == path \in DOMAIN local

service == services[i]

base_dir == BaseDirOf(service)

file_name == files[k]

local_name == LocalName(base_dir, file_name)

pending_name == PendingName(local_name)

\* variant: no check for a file that is already there
NeverThere(fs) == FALSE

\* if os.path.exists(local_name): ... continue
AlreadyThere(fs) == local_name \in DOMAIN fs

\* if not self.dry_run: the transfer
ShouldFetch == ~dry_run

\* variant: the remote file is removed whatever the flag says
ShouldRemoveAlways == TRUE

\* if self.remove: sftp.remove(file_name)
ShouldRemove == remove

Init ==
    /\ \E ret \in RetentionChoices :
          /\ config = ServConfig(HostList, Pattern, ret[2])
          /\ services = MakeServices(HostList, Pattern, ret)
    /\ \E S \in SUBSET InitialFiles :
          /\ Cardinality(S) <= MaxFiles
          /\ remote = [h \in Hosts |-> {f \in Paths : <<h, f>> \in S}]
          /\ snap = Snapshot({}, <<>>, [h \in Hosts |-> {f \in Paths : <<h, f>> \in S}])
    /\ dirs = {}
    /\ local = <<>>
    /\ dry_run \in BOOLEAN
    /\ remove \in BOOLEAN
    /\ pc = "start"
    /\ i = 1
    /\ files = <<>>
    /\ k = 0
    /\ to_delete = <<>>
    /\ j = 0
    /\ run = 1
    /\ faults = 0
    /\ log = <<>>
    /\ pulls = {}
    /\ pruned = {}

(***************************************************************************)
(* Control flow shared by the steps.                                       *)
(***************************************************************************)
\* for service in services: the next iteration, or the end of the script
NextUnit ==
    /\ files' = <<>>
    /\ k' = 0
    /\ to_delete' = <<>>
    /\ j' = 0
    /\ IF i < Len(services)
       THEN pc' = "start" /\ i' = i + 1
       ELSE pc' = "exit" /\ i' = i

\* variant: an exception that is not caught ends the script
RaiseAbort(what, f) ==
    /\ log' = Append(log, Ev("fail", f, what))
    /\ files' = <<>>
    /\ k' = 0
    /\ to_delete' = <<>>
    /\ j' = 0
    /\ pc' = "exit"
    /\ i' = i

\* an exception leaves archive_service and is caught by the loop of the script
Raise(what, f) ==
    /\ log' = Append(log, Ev("fail", f, what))
    /\ NextUnit

\* an I/O operation fails
Fault == faults < MaxFaults /\ faults' = faults + 1

\* for file_name in files: the next iteration, or the code after the loop
NextFile ==
    /\ i' = i
    /\ files' = files
    /\ to_delete' = to_delete
    /\ j' = j
    /\ IF k < Len(files)
       THEN pc' = "file" /\ k' = k + 1
       ELSE pc' = "close" /\ k' = k

Stay(p) ==
    /\ pc' = p
    /\ UNCHANGED <<i, files, k, to_delete, j>>

(***************************************************************************)
(* archive_service, step by step.  Every I/O call either returns or        *)
(* raises; the script may also be terminated between any two steps.        *)
(***************************************************************************)
\* the loop of the script enters archive_service: os.makedirs(base_dir)
StartUnit ==
    /\ pc = "start"
    /\ \/ /\ dirs' = dirs \cup {base_dir}
          /\ log' = Append(log, Ev("handling", base_dir, ""))
                       \o (IF base_dir \in dirs THEN <<>> ELSE <<Ev("mkdir", base_dir, "")>>)
                       \o (IF HasPlaceholder(service.pattern)
                           THEN <<>> ELSE <<Ev("warning", service.pattern, "")>>)
          /\ Stay("connect")
          /\ UNCHANGED faults
       \/ /\ base_dir \notin dirs
          /\ Fault
          /\ log' = Append(log, Ev("handling", base_dir, "")) \o <<Ev("fail", base_dir, "makedirs")>>
          /\ NextUnit
          /\ UNCHANGED dirs
    /\ UNCHANGED <<config, services, remote, local, dry_run, remove, run, pulls, pruned, snap>>

\* client.connect(...), client.exec_command(find), files.sort(),
\* filter_by_age, client.open_sftp()
ListFiles ==
    /\ pc = "connect"
    /\ LET listed == ListRemote(remote[service.host], service.directory, service.pattern)
           r == filter_by_age(listed, Today, service.days_to_keep_on_remote)
       IN  \/ /\ r.err = ""
              /\ files' = r.out
              /\ IF r.out = <<>> THEN pc' = "close" /\ k' = 0 ELSE pc' = "file" /\ k' = 1
              /\ UNCHANGED <<i, to_delete, j, faults, log>>
           \/ /\ r.err # ""
              /\ Raise(r.err, <<>>)
              /\ UNCHANGED faults
           \/ /\ Fault
              /\ Raise("ssh", <<>>)
    /\ UNCHANGED <<config, services, remote, dirs, local, dry_run, remove, run, pulls, pruned, snap>>

\* the head of the loop body: the names, the sweep of a stale pending file,
\* the skip of a file that is already there, the dry-run print
BeginFile ==
    /\ pc = "file"
    /\ \/ /\ LET swept == IF Exists(pending_name) THEN RemoveKey(local, pending_name) ELSE local
                 note == IF Exists(pending_name)
                         THEN Append(log, Ev("sweep", file_name, "")) ELSE log
             IN  /\ local' = swept
                 /\ IF AlreadyThere(swept)
                    THEN log' = Append(note, Ev("skip", file_name, "")) /\ NextFile
                    ELSE IF ~ShouldFetch
                    THEN log' = Append(note, Ev("dry", file_name, "")) /\ NextFile
                    ELSE log' = note /\ Stay("open")
          /\ UNCHANGED faults
       \/ /\ Exists(pending_name)
          /\ Fault
          /\ Raise("remove_pending", file_name)
          /\ UNCHANGED local
    /\ UNCHANGED <<config, services, remote, dirs, dry_run, remove, run, pulls, pruned, snap>>

\* gzip.open(pending_name, 'wb') or the open of sftp.get: the file appears
OpenPending ==
    /\ pc = "open"
    /\ \/ /\ local' = Put(local, pending_name, [src |-> file_name, complete |-> FALSE])
          /\ log' = Append(log, Ev("open", file_name, ""))
          /\ Stay("write")
          /\ UNCHANGED faults
       \/ /\ Fault
          /\ Raise("download", file_name)
          /\ UNCHANGED local
    /\ UNCHANGED <<config, services, remote, dirs, dry_run, remove, run, pulls, pruned, snap>>

\* sftp.getfo / sftp.get runs to its end, or stops part way
Download ==
    /\ pc = "write"
    /\ \/ /\ local' = Put(local, pending_name, [src |-> file_name, complete |-> TRUE])
          /\ log' = Append(log, Ev("got", file_name, ""))
          /\ Stay("rename")
          /\ UNCHANGED faults
       \/ /\ Fault
          /\ Raise("download", file_name)
          /\ UNCHANGED local
    /\ UNCHANGED <<config, services, remote, dirs, dry_run, remove, run, pulls, pruned, snap>>

\* os.rename(pending_name, local_name)
Rename ==
    /\ pc = "rename"
    /\ \/ /\ local' = Put(RemoveKey(local, pending_name), local_name, local[pending_name])
          /\ log' = Append(log, Ev("rename", file_name, ""))
          /\ pulls' = pulls \cup {<<service.host, file_name>>}
          /\ pruned' = pruned \ {local_name}
          /\ IF ShouldRemove THEN Stay("rm") ELSE NextFile
          /\ UNCHANGED faults
       \/ /\ Fault
          /\ Raise("rename", file_name)
          /\ UNCHANGED <<local, pulls, pruned>>
    /\ UNCHANGED <<config, services, remote, dirs, dry_run, remove, run, snap>>

\* sftp.remove(file_name)
RemoveRemote ==
    /\ pc = "rm"
    /\ \/ /\ remote' = [remote EXCEPT ![service.host] = @ \ {file_name}]
          /\ log' = Append(log, Ev("rm", file_name, ""))
          /\ NextFile
          /\ UNCHANGED faults
       \/ /\ Fault
          /\ Raise("sftp_remove", file_name)
          /\ UNCHANGED remote
    /\ UNCHANGED <<config, services, dirs, local, dry_run, remove, run, pulls, pruned, snap>>

\* os.walk(base_dir)
LocalFiles(dir) == {f \in DOMAIN local : IsUnder(dir, f)}

\* sftp.close(), client.close(), then the retention period of the service
CloseAndSelect ==
    /\ pc = "close"
    /\ \/ /\ Fault
          /\ Raise("close", <<>>)
       \/ /\ ~HasAttr(service, "retention_period_days")
          /\ Raise("AttributeError", <<>>)
          /\ UNCHANGED faults
       \/ /\ HasAttr(service, "retention_period_days")
          /\ ~Truthy(service.retention_period_days)
          /\ NextUnit
          /\ UNCHANGED <<faults, log>>
       \/ /\ HasAttr(service, "retention_period_days")
          /\ Truthy(service.retention_period_days)
          /\ LET r == filter_by_age(SetToSeq(LocalFiles(base_dir)), Today,
                                    service.retention_period_days[1])
             IN  IF r.err # ""
                 THEN Raise(r.err, <<>>)
                 ELSE /\ log' = Append(log, Ev("retention", base_dir, ""))
                      /\ IF r.out = <<>>
                         THEN NextUnit
                         ELSE /\ to_delete' = r.out
                              /\ j' = 1
                              /\ pc' = "prune"
                              /\ UNCHANGED <<i, files, k>>
          /\ UNCHANGED faults
    /\ UNCHANGED <<config, services, remote, dirs, local, dry_run, remove, run, pulls, pruned, snap>>

\* for file_name in files_to_delete: os.remove(file_name) unless dry_run
Prune ==
    /\ pc = "prune"
    /\ LET victim == to_delete[j]
           more == IF j < Len(to_delete)
                   THEN j' = j + 1 /\ UNCHANGED <<pc, i, files, k, to_delete>>
                   ELSE NextUnit
       IN  \/ /\ dry_run
              /\ log' = Append(log, Ev("would_prune", victim, ""))
              /\ more
              /\ UNCHANGED <<local, faults, pruned>>
           \/ /\ ~dry_run
              /\ local' = RemoveKey(local, victim)
              /\ log' = Append(log, Ev("prune", victim, ""))
              /\ pruned' = pruned \cup {victim}
              /\ more
              /\ UNCHANGED faults
           \/ /\ ~dry_run
              /\ Fault
              /\ Raise("os_remove", victim)
              /\ UNCHANGED <<local, pruned>>
    /\ UNCHANGED <<config, services, remote, dirs, dry_run, remove, run, pulls, snap>>

\* the process is terminated (signal, power loss) wherever it is
Kill ==
    /\ pc \notin {"exit", "killed"}
    /\ Fault
    /\ pc' = "killed"
    /\ UNCHANGED <<config, services, remote, dirs, local, dry_run, remove, i, files, k,
                   to_delete, j, run, log, pulls, pruned, snap>>

\* the script is started again, with its own command line flags
NextRun ==
    /\ pc \in {"exit", "killed"}
    /\ run < MaxRuns
    /\ run' = run + 1
    /\ dry_run' \in BOOLEAN
    /\ remove' \in BOOLEAN
    /\ pc' = "start"
    /\ i' = 1
    /\ files' = <<>>
    /\ k' = 0
    /\ to_delete' = <<>>
    /\ j' = 0
    /\ log' = <<>>
    /\ snap' = Snapshot(dirs, local, remote)
    /\ UNCHANGED <<config, services, remote, dirs, local, faults, pulls, pruned>>

Next ==
    \/ StartUnit
    \/ ListFiles
    \/ BeginFile
    \/ OpenPending
    \/ Download
    \/ Rename
    \/ RemoveRemote
    \/ CloseAndSelect
    \/ Prune
    \/ Kill
    \/ NextRun

Spec == Init /\ [][Next]_vars

(***************************************************************************)
(* The script from its first line: the list of services is built from the  *)
(* configuration before any unit is processed.                             *)
(***************************************************************************)
HostLists == {<<>>, <<"h1">>, HostList}

ConfiguredRetentions == {None, <<0>>, <<15>>}

InitScript ==
    /\ \E hostList \in HostLists, retention \in ConfiguredRetentions :
          config = ServConfig(hostList, Pattern, retention)
    /\ services = <<>>
    /\ \E S \in SUBSET InitialFiles :
          /\ Cardinality(S) <= MaxFiles
          /\ remote = [h \in Hosts |-> {f \in Paths : <<h, f>> \in S}]
          /\ snap = Snapshot({}, <<>>, [h \in Hosts |-> {f \in Paths : <<h, f>> \in S}])
    /\ dirs = {}
    /\ local = <<>>
    /\ dry_run \in BOOLEAN
    /\ remove \in BOOLEAN
    /\ pc = "main"
    /\ i = 1
    /\ files = <<>>
    /\ k = 0
    /\ to_delete = <<>>
    /\ j = 0
    /\ run = 1
    /\ faults = 0
    /\ log = <<>>
    /\ pulls = {}
    /\ pruned = {}

\* services = [Service(...) for ... for host in serv_config["hosts"]]: an
\* exception here is caught by nothing and ends the script
LoadServices ==
    /\ pc = "main"
    /\ LET built == [n \in 1..Len(config.hosts) |->
                        ServiceNew(ServiceKwargs(config, config.hosts[n]))]
       IN  \/ /\ \E n \in DOMAIN built : built[n].err # ""
              /\ pc' = "crashed"
              /\ log' = Append(log, Ev("fail", <<>>, "TypeError"))
              /\ UNCHANGED services
           \/ /\ \A n \in DOMAIN built : built[n].err = ""
              /\ services' = [n \in DOMAIN built |-> built[n].val]
              /\ pc' = IF built = <<>> THEN "exit" ELSE "start"
              /\ UNCHANGED log
    /\ UNCHANGED <<config, remote, dirs, local, dry_run, remove, i, files, k,
                   to_delete, j, run, faults, pulls, pruned, snap>>

NextScript == LoadServices

ScriptSpec == InitScript /\ [][NextScript]_vars

(***************************************************************************)
(* One service on one host, with three daily logs on the remote host, and  *)
(* a pattern written with either spelling of the date token.               *)
(***************************************************************************)
\* "access-<DATE>.log": the text <DATE> is not the token the code looks for
PatternWithoutToken == <<T("access-"), T("<DATE>"), T(".log")>>

\* "access-<DATE->.log"
PatternWithToken == <<T("access-"), DatePlaceholder, T(".log")>>

ScenarioFiles == {Log(D(2024, 1, 1)), Log(D(2024, 1, 10)), Log(D(2024, 1, 20))}

ScenarioRetentions == {<<"declared", <<8>>>>, <<"attribute", None>>, <<"attribute", <<8>>>>}

InitScenario ==
    /\ \E pattern \in {PatternWithoutToken, PatternWithToken}, ret \in ScenarioRetentions :
          /\ config = ServConfig(<<"h1">>, pattern, ret[2])
          /\ services = MakeServices(<<"h1">>, pattern, ret)
    /\ remote = [h \in Hosts |-> IF h = "h1" THEN ScenarioFiles ELSE {}]
    /\ snap = Snapshot({}, <<>>, [h \in Hosts |-> IF h = "h1" THEN ScenarioFiles ELSE {}])
    /\ dirs = {}
    /\ local = <<>>
    /\ dry_run \in BOOLEAN
    /\ remove \in BOOLEAN
    /\ pc = "start"
    /\ i = 1
    /\ files = <<>>
    /\ k = 0
    /\ to_delete = <<>>
    /\ j = 0
    /\ run = 1
    /\ faults = 0
    /\ log = <<>>
    /\ pulls = {}
    /\ pruned = {}

ScenarioSpec == InitScenario /\ [][Next]_vars

(***************************************************************************)
(* The remote hosts are machines of their own: between two runs of the     *)
(* script a log file may be rotated away there.                            *)
(***************************************************************************)
RemoteRotates ==
    /\ pc \in {"exit", "killed"}
    /\ run < MaxRuns
    /\ \E h \in Hosts : \E f \in remote[h] :
          remote' = [remote EXCEPT ![h] = @ \ {f}]
    /\ UNCHANGED <<config, services, dirs, local, dry_run, remove, pc, i, files, k,
                   to_delete, j, run, faults, log, pulls, pruned, snap>>

NextRotation == Next \/ RemoteRotates

\* one service on one host, with the files the first host may hold
InitRotation ==
    /\ \E ret \in RetentionChoices :
          /\ config = ServConfig(<<"h1">>, Pattern, ret[2])
          /\ services = MakeServices(<<"h1">>, Pattern, ret)
    /\ \E S \in SUBSET Paths :
          /\ Cardinality(S) <= MaxFiles
          /\ remote = [h \in Hosts |-> IF h = "h1" THEN S ELSE {}]
          /\ snap = Snapshot({}, <<>>, [h \in Hosts |-> IF h = "h1" THEN S ELSE {}])
    /\ dirs = {}
    /\ local = <<>>
    /\ dry_run \in BOOLEAN
    /\ remove \in BOOLEAN
    /\ pc = "start"
    /\ i = 1
    /\ files = <<>>
    /\ k = 0
    /\ to_delete = <<>>
    /\ j = 0
    /\ run = 1
    /\ faults = 0
    /\ log = <<>>
    /\ pulls = {}
    /\ pruned = {}

RotationSpec == InitRotation /\ [][NextRotation]_vars

(***************************************************************************)
(* Vocabulary of the properties.                                           *)
(***************************************************************************)
IsPending(f) == f[Len(f)] = T(".download")

Events(op) == {n \in 1..Len(log) : log[n].op = op}

\* the step appends exactly this event to the log
Logs(op) == Len(log') = Len(log) + 1 /\ log'[Len(log')].op = op

\* a name that carries a 20xx date that is a calendar date
Dated(f) == RegexSearch(f) # 0 /\ ValidDate(FileDate(f))

\* the age in days of the date in such a name
NameAge(f) == Ordinal(Today) - Ordinal(FileDate(f))

\* a remote name whose date is more than `days` days old
Eligible(f, days) == Dated(f) /\ NameAge(f) > days

(***************************************************************************)
(* C1: in every reachable state, whatever failed or was terminated before, *)
(* a local file that is not under a '.download' name is a complete         *)
(* transfer, and it is the transfer of a remote file whose local_name it   *)
(* carries; partial data exists under pending names only.                  *)
(***************************************************************************)
C1_FinalNamesHoldCompleteTransfers ==
    \A f \in DOMAIN local :
        ~IsPending(f) =>
            /\ local[f].complete
            /\ \E s \in 1..Len(services) :
                  f = LocalName(BaseDirOf(services[s]), local[f].src)

\* a run was terminated in the middle of a download: the partial data is under
\* the pending name and nothing is under the final name
C1_Witness ==
    /\ pc = "killed"
    /\ files # <<>> /\ k \in 1..Len(files)
    /\ Exists(pending_name)
    /\ ~local[pending_name].complete
    /\ ~Exists(local_name)

(***************************************************************************)
(* C2: a step takes a file off a remote host only as the sftp.remove of    *)
(* the file being fetched, in a run with removal enabled and no dry run,   *)
(* right after the rename that promoted that file's complete download in   *)
(* the same fetch; it takes away that one file and nothing else.           *)
(***************************************************************************)
C2_RemoteDeletionOnlyAfterPromotion ==
    [][remote' # remote =>
          /\ pc = "rm"
          /\ remove /\ ~dry_run
          /\ log[Len(log)] = Ev("rename", file_name, "")
          /\ \E n \in 1..Len(log) - 1 :
                /\ log[n] = Ev("got", file_name, "")
                /\ \A m \in n..Len(log) : log[m].f = file_name /\ log[m].u = i
          /\ Exists(local_name) /\ local[local_name] = [src |-> file_name, complete |-> TRUE]
          /\ ~Exists(pending_name)
          /\ remote' = [remote EXCEPT ![service.host] = @ \ {file_name}]]_vars

\* a remote file is gone and its complete copy is under the final name
C2_Witness ==
    /\ Events("rm") # {}
    /\ \E n \in Events("rm") :
          /\ log[n].f \notin remote[services[log[n].u].host]
          /\ LocalName(BaseDirOf(services[log[n].u]), log[n].f) \in DOMAIN local

(***************************************************************************)
(* C3: when the download or the rename of a file raises, the state right   *)
(* after has no file under that file's local_name, the pending file (if    *)
(* any) is still under its pending name, and the remote files are the      *)
(* same, the source among them.                                            *)
(***************************************************************************)
C3_FailedTransferLeavesNoFinalFile ==
    [][(Logs("fail") /\ log'[Len(log')].at \in {"download", "rename"}) =>
          /\ local_name \notin DOMAIN local'
          /\ (Exists(pending_name) =>
                pending_name \in DOMAIN local' /\ local'[pending_name] = local[pending_name])
          /\ remote' = remote
          /\ file_name \in remote'[service.host]]_vars

\* a download stopped part way with an error; the script goes on
C3_Witness ==
    /\ Events("fail") # {}
    /\ pc # "killed"
    /\ \E n \in Events("fail") :
          /\ log[n].at = "download"
          /\ PendingName(LocalName(BaseDirOf(services[log[n].u]), log[n].f)) \in DOMAIN local

(***************************************************************************)
(* C4: a run that is not terminated from outside reaches its end only      *)
(* after it has entered archive_service for every configured unit, and an  *)
(* exception inside a unit is followed by the next unit, not by the end    *)
(* of the run.                                                             *)
(***************************************************************************)
C4_EveryUnitIsProcessed ==
    /\ pc = "exit" =>
          \A u \in 1..Len(services) : \E n \in Events("handling") : log[n].u = u
    /\ \A n \in Events("fail") :
          log[n].u < Len(services) =>
              (n < Len(log) /\ log[n + 1].op = "handling" /\ log[n + 1].u = log[n].u + 1)
              \/ (n = Len(log) /\ pc \in {"start", "killed"} /\ i = log[n].u + 1)

\* the first unit raised, the second one pulled a file, the run ended
C4_Witness ==
    /\ pc = "exit"
    /\ \E n \in Events("fail") : log[n].u = 1
    /\ \E n \in Events("rename") : log[n].u = 2

(***************************************************************************)
(* C5 (as the spec states it): when a step of one file's transfer raises   *)
(* and the unit has selected files left, the unit goes on with the next    *)
(* selected file.                                                          *)
(***************************************************************************)
C5_FailedFileDoesNotAbortBatch ==
    [][(/\ Logs("fail")
        /\ log'[Len(log')].at \in {"remove_pending", "download", "rename", "sftp_remove"}
        /\ k < Len(files))
          => (pc' = "file" /\ i' = i /\ files' = files /\ k' = k + 1)]_vars

(***************************************************************************)
(* C6: the fetch of a file whose local_name exists changes no local file,  *)
(* no directory and no remote file, starts no download, deletes nothing    *)
(* on the remote whatever the removal flag says, and goes on with the      *)
(* next file.                                                              *)
(***************************************************************************)
C6_ExistingFileIsSkipped ==
    [][(pc = "file" /\ Exists(local_name) /\ pc' # "killed") =>
          /\ Logs("skip")
          /\ local' = local /\ dirs' = dirs /\ remote' = remote /\ pulls' = pulls
          /\ i' = i
          /\ \/ pc' = "file" /\ k' = k + 1
             \/ pc' = "close" /\ k = Len(files)]_vars

\* a later run with removal enabled met a file it had pulled before and left
\* both copies where they were
C6_Witness ==
    /\ run > 1
    /\ remove
    /\ \E n \in Events("skip") :
          LET h == services[log[n].u].host
              ln == LocalName(BaseDirOf(services[log[n].u]), log[n].f)
          IN  /\ <<h, log[n].f>> \in pulls
              /\ log[n].f \in remote[h]
              /\ ln \in DOMAIN local /\ local[ln] = [src |-> log[n].f, complete |-> TRUE]

C8_DryRunChangesNothing ==
    dry_run => (dirs = snap.dirs /\ local = snap.local /\ remote = snap.remote)

(***************************************************************************)
(* C9: a step that starts or completes a download, promotes a file or      *)
(* changes a remote host does so for a file whose name carries a 20xx      *)
(* date that is a calendar date and is more than days_to_keep_on_remote    *)
(* days old; a file of age equal to or below that number, and a file       *)
(* with no such date, is neither downloaded nor taken off the remote.      *)
(***************************************************************************)
C9_OnlyOlderFilesAreTouched ==
    [][(\/ Logs("open") \/ Logs("got") \/ Logs("rename") \/ Logs("rm")
        \/ remote' # remote
        \/ \E f \in DOMAIN local' \ DOMAIN local : TRUE) =>
          /\ log'[Len(log')].f = file_name
          /\ Eligible(file_name, service.days_to_keep_on_remote)
          /\ \A h \in Hosts : \A f \in remote[h] \ remote'[h] :
                h = service.host /\ Eligible(f, service.days_to_keep_on_remote)
          /\ \A f \in DOMAIN local' \ DOMAIN local :
                local'[f].src = file_name]_vars

\* a unit pulled an old file and removed it; the file that is exactly
\* days_to_keep_on_remote days old and the one with no 20xx date stayed
C9_Witness ==
    /\ pc = "exit"
    /\ \E n \in Events("rm") : log[n].u = 1
    /\ \E f \in remote[services[1].host] :
          \/ (Dated(f) /\ NameAge(f) = services[1].days_to_keep_on_remote)
          \/ RegexSearch(f) = 0

(***************************************************************************)
(* C10: within a unit the downloads start in ascending order of the dates  *)
(* in the names, a file's events are not interleaved with another file's,  *)
(* and with removal enabled the remote original of a promoted file is      *)
(* removed before the next download starts, so the removals are in         *)
(* ascending order of date as well.                                        *)
(***************************************************************************)
C10_OldestFirstOneAtATime ==
    LET opens == Events("open")
        rms == Events("rm")
        renames == Events("rename")
        later == Events("got") \cup renames \cup rms
    IN  /\ \A a, b \in opens \cup rms :
              (a < b /\ log[a].u = log[b].u /\ log[a].op = log[b].op) =>
                  NameAge(log[a].f) >= NameAge(log[b].f)
        /\ \A a \in opens : \A b \in later :
              (a < b /\ log[a].u = log[b].u /\ log[b].f # log[a].f) =>
                  \E c \in opens : a < c /\ c < b /\ log[c].f = log[b].f
        /\ \A a \in renames : \A b \in opens :
              (remove /\ a < b /\ log[a].u = log[b].u) =>
                  \E c \in rms : a < c /\ c < b /\ log[c].f = log[a].f

\* a unit removed two files of different dates from the remote
C10_Witness ==
    \E a, b \in Events("rm") :
        /\ a < b
        /\ log[a].u = log[b].u
        /\ NameAge(log[a].f) > NameAge(log[b].f)

(***************************************************************************)
(* C11: when the configuration sets retention_period_days to r, a unit     *)
(* whose fetch phase is over (the connections are closed without an I/O    *)
(* error, no dry run) selects for deletion exactly the files under its     *)
(* local directory whose name carries a date more than r days old, and     *)
(* each deletion that raises nothing takes the selected file away.         *)
(***************************************************************************)
C11_PrunesExactlyTheOldFiles ==
    [][/\ (pc = "close" /\ faults' = faults /\ ~dry_run
            /\ config.retention_period_days # None) =>
           LET old == {f \in LocalFiles(base_dir) :
                          Eligible(f, config.retention_period_days[1])}
           IN  /\ {to_delete'[n] : n \in 1..Len(to_delete')} = old
               /\ old # {} => pc' = "prune"
       /\ (pc = "prune" /\ faults' = faults /\ ~dry_run) =>
           local' = RemoveKey(local, to_delete[j])]_vars

(***************************************************************************)
(* C12: once the script has built its list of services, every host of the *)
(* configured service is a unit on that list, and the condition under      *)
(* which archive_service invokes the retention pass is true for the unit  *)
(* exactly when the configuration sets retention_period_days: false when   *)
(* the key is absent, true for every integer value.                        *)
(***************************************************************************)
C12_PrunerInvokedIffRetentionSet ==
    pc # "main" =>
        /\ pc # "crashed"
        /\ Len(services) = Len(config.hosts)
        /\ \A n \in 1..Len(services) :
              /\ HasAttr(services[n], "retention_period_days")
              /\ Truthy(services[n].retention_period_days)
                    <=> config.retention_period_days # None

(***************************************************************************)
(* C13: the listing step of a unit, when no I/O error occurs, raises       *)
(* nothing whatever the names on the remote host are: a name whose date    *)
(* is not a calendar date (month 13) is left out, and the other names that *)
(* are old enough are all selected.                                        *)
(***************************************************************************)
C13_InvalidDateIsLeftOut ==
    [][(pc = "connect" /\ faults' = faults) =>
          /\ Len(log') = Len(log)
          /\ {files'[n] : n \in 1..Len(files')}
                = {f \in remote[service.host] :
                      /\ IsUnder(service.directory, f)
                      /\ GlobMatch(GlobOf(service.pattern), basename(f))
                      /\ Eligible(f, service.days_to_keep_on_remote)}]_vars

(***************************************************************************)
(* C14: the fetch of a file starts, when the removal raises nothing, by    *)
(* deleting the pending file an earlier interrupted or failed transfer of  *)
(* that file left behind: after that first step no file is under the       *)
(* pending name, the download then creates the pending file anew and       *)
(* empty, and the rename that ends a successful fetch leaves no file under *)
(* the pending name.                                                       *)
(***************************************************************************)
C14_StalePendingIsSweptFirst ==
    [][/\ (pc = "file" /\ faults' = faults) => pending_name \notin DOMAIN local'
       /\ Logs("open") =>
             /\ ~Exists(pending_name)
             /\ local' = Put(local, pending_name, [src |-> file_name, complete |-> FALSE])
       /\ Logs("rename") => pending_name \notin DOMAIN local']_vars

\* a later run swept the partial download an earlier run left, fetched the
\* file again, and no pending file is left
C14_Witness ==
    /\ run > 1
    /\ \E a \in Events("sweep"), b \in Events("rename") :
          /\ a < b
          /\ log[a].f = log[b].f /\ log[a].u = log[b].u
          /\ \E f \in DOMAIN snap.local : IsPending(f) /\ ~snap.local[f].complete
    /\ \A f \in DOMAIN local : ~IsPending(f)

C16_MissingTokenListsWithWildcard ==
    [][~HasPlaceholder(service.pattern) =>
          /\ (pc = "start" /\ faults' = faults) =>
                /\ pc' = "connect"
                /\ log'[Len(log')] = Ev("warning", service.pattern, "")
          /\ (pc = "connect" /\ faults' = faults) =>
                \E n \in 1..Len(service.pattern) : GlobOf(service.pattern)[n] = DateGlob]_vars

\* what the end-to-end scenario says of one step of a unit with this pattern
EndToEndStep(pattern) ==
    service.pattern = pattern =>
        /\ (pc = "connect" /\ faults' = faults) =>
              /\ GlobOf(service.pattern) = <<T("access-"), DateGlob, T(".log")>>
              /\ {files'[n] : n \in 1..Len(files')}
                    = {Log(D(2024, 1, 1)), Log(D(2024, 1, 10))} \cap remote["h1"]
        /\ Logs("rename") =>
              /\ file_name \in {Log(D(2024, 1, 1)), Log(D(2024, 1, 10))}
              /\ local_name = <<Dir("root"), Dir("webapp"), Dir("h1"),
                                T("access-"), FileDate(file_name), T(".log"), T(".gz")>>
              /\ local_name \in DOMAIN local'
              /\ local'[local_name] = [src |-> file_name, complete |-> TRUE]
        /\ Log(D(2024, 1, 20)) \in remote'["h1"]
        /\ \A f \in DOMAIN local' : local'[f].src # Log(D(2024, 1, 20))

(***************************************************************************)
(* C17: service webapp on host h1, pattern "access-<DATE>.log", 7 days to  *)
(* keep, remote logs of 2024-01-01, 2024-01-10 and 2024-01-20, today       *)
(* 2024-01-21: the listing glob is "access-????-??-??.log", the listing    *)
(* selects exactly the logs of 01-01 and 01-10 that are on the remote,     *)
(* each is stored as root/webapp/h1/access-<its date>.log.gz, and the log  *)
(* of 01-20 stays on the remote and is never stored.                       *)
(***************************************************************************)
C17_EndToEnd ==
    [][EndToEndStep(PatternWithoutToken)]_vars

(***************************************************************************)
(* C17 as amended: the same with the pattern "access-<DATE->.log", the     *)
(* spelling of the date token the code replaces.                           *)
(***************************************************************************)
C17_EndToEndWithToken ==
    [][EndToEndStep(PatternWithToken)]_vars

\* both old logs are stored under their final names, the recent one is on
\* the remote host
C17_Witness ==
    /\ services[1].pattern = PatternWithToken
    /\ \A date \in {D(2024, 1, 1), D(2024, 1, 10)} :
          /\ <<"h1", Log(date)>> \in pulls
          /\ Exists(<<Dir("root"), Dir("webapp"), Dir("h1"),
                      T("access-"), date, T(".log"), T(".gz")>>)
    /\ Log(D(2024, 1, 20)) \in remote["h1"]

UnitCompletes ==
    /\ pc \in {"close", "prune"}
    /\ pc' \in {"start", "exit"}
    /\ log'[Len(log')].op # "fail"

\* the remote files the current unit removed in this run, once the step is done
RemovedByUnit == {log'[n].f : n \in {m \in 1..Len(log') : log'[m].op = "rm" /\ log'[m].u = i}}

\* the complete copy of remote file f is under its final name after the step
CopyKept(f) ==
    /\ LocalName(base_dir, f) \in DOMAIN local'
    /\ local'[LocalName(base_dir, f)] = [src |-> f, complete |-> TRUE]

EarlierFileCollides ==
    \E n \in 1..(k - 1) :
        files[n] # file_name /\ LocalName(base_dir, files[n]) = local_name

(***************************************************************************)
(* C20: when the fetch loop of a unit comes to a selected file whose local *)
(* name is that of another file selected earlier in the same listing, and  *)
(* no I/O call fails, no download is started for it, no local file is      *)
(* changed, no remote file is removed, and outside a dry run the file is   *)
(* reported as already existing: of the two only the earlier one can have  *)
(* been downloaded in this unit.                                           *)
(***************************************************************************)
C20_CollidingNameIsSkipped ==
    [][(pc = "file" /\ faults' = faults /\ EarlierFileCollides) =>
          /\ pc' # "open"
          /\ local' = local
          /\ remote' = remote
          /\ ~dry_run => Logs("skip") /\ log'[Len(log')].f = file_name]_vars

\* the first of two files with one local name was downloaded and stored in
\* this unit, the second was skipped and is still on the remote host
C20_Witness ==
    \E a \in Events("rename"), b \in Events("skip") :
        /\ a < b
        /\ log[a].u = log[b].u
        /\ log[a].f # log[b].f
        /\ LocalName(BaseDirOf(services[log[a].u]), log[a].f)
              = LocalName(BaseDirOf(services[log[b].u]), log[b].f)
        /\ local[LocalName(BaseDirOf(services[log[a].u]), log[a].f)].src = log[a].f
        /\ log[b].f \in remote[services[log[b].u].host]
====
